---- MODULE Spec2Model ----
(***************************************************************************)
(* Model of src/data_generators.py, class DataGenerator: the chunk         *)
(* segmenter (__generate_chunks), the batch materializer                   *)
(* (__generate_xy_batches), construction (__init__) and the three          *)
(* generators (train_generator, validation_generator, test_generator).     *)
(*                                                                         *)
(* Frames are absolute positions of the flat feature table; a recording    *)
(* is a half-open range [begin, end) of it.  A Python generator runs only  *)
(* when it is pulled: one action is one pull, from one yield to the next.  *)
(***************************************************************************)
EXTENDS Integers, Sequences, FiniteSets, TLC

VARIABLES
    params,                     \* the hparams object given to __init__
    x, y, manually_verified,    \* train.h5: feature, label index, manually_verified
    begin_end_indices,          \* train.h5: begin_end_ind
    status,                     \* outcome of __init__: "ready", or the exception it raised
    train_audio_indices, validation_audio_indices,
    mean, std,
    train_chunks,
    train_rand_generator, validation_rand_generator,
    epoch, epoch_len,
    test_data,                  \* test.h5 and what read_test_data loaded from it
    tgen,                       \* the train_generator() generator objects
    vgen,                       \* the current validation_generator() generator object
    sgen,                       \* the current test_generator() generator object
    call                        \* last direct call of a private helper (SpecChunks)

vars == <<params, x, y, manually_verified, begin_end_indices, status,
          train_audio_indices, validation_audio_indices, mean, std, train_chunks,
          train_rand_generator, validation_rand_generator, epoch, epoch_len,
          test_data, tgen, vgen, sgen, call>>

----------------------------------------------------------------------------
(* Bounds of the model *)

MaxL == 3            \* input_frames_number ranges over 1..MaxL
MaxLen == 3          \* frames of one recording range over 0..MaxLen
MaxTrainLen == 5     \* frames of one recording of the training runs (SpecTrain)
MaxBatch == 2        \* batch_size ranges over 1..MaxBatch
MaxEval == 1         \* eval_audios_number ranges over 0..MaxEval
MaxSeed == 0         \* params.seed ranges over 0..MaxSeed
MaxTrainSteps == 3   \* pulls of one training generator
MaxRuns == 2         \* validation_generator() calls (SpecEval)
MaxEngineRuns == 1   \* validation_generator() calls next to the other generators (Spec)
MaxFrames == 10      \* table length of the direct helper calls (SpecChunks)

RecIds == {0, 1}                 \* recordings of train.h5, in file order
TrainGens == {1, 2}              \* training generator objects of one engine

----------------------------------------------------------------------------
(* Generic helpers *)

Min(a, b) == IF a < b THEN a ELSE b

Range(s) == {s[i] : i \in DOMAIN s}

RECURSIVE SumSeq(_)
SumSeq(s) == IF s = <<>> THEN 0 ELSE Head(s) + SumSeq(Tail(s))

RECURSIVE Concat(_)
Concat(ss) == IF ss = <<>> THEN <<>> ELSE Head(ss) \o Concat(Tail(ss))

\* the elements of s at the (1-based) positions where keep holds, in order
RECURSIVE Filter(_, _)
Filter(s, keep) ==
    IF s = <<>> THEN <<>>
    ELSE (IF keep[Head(s)] THEN <<Head(s)>> ELSE <<>>) \o Filter(Tail(s), keep)

\* Python x[b:e] on a sequence, 0 <= b: positions b .. e-1, clipped to the data
Slice(s, b, e) == SubSeq(s, b + 1, Min(e, Len(s)))

----------------------------------------------------------------------------
(* np.random.RandomState: a seeded stream of draws.  The generator is a    *)
(* linear congruential one of period RngModulus; shuffle is numpy's        *)
(* Fisher-Yates loop, for i in reversed(range(1, n)): j = draw in 0..i;    *)
(* swap x[i], x[j].                                                         *)

RngModulus == 16

RandomState(seed) == seed % RngModulus

RngNext(s) == (5 * s + 3) % RngModulus

\* a draw in 0..max from stream position s
RandomInterval(s, max) == (s \div 4) % (max + 1)

Swap(s, i, j) == [s EXCEPT ![i] = s[j], ![j] = s[i]]

\* positions i, i-1, .., 2 (1-based) of s, each swapped with a drawn position <= it
RECURSIVE ShuffleFrom(_, _, _)
ShuffleFrom(s, rng, i) ==
    IF i < 2 THEN [seq |-> s, rng |-> rng]
    ELSE LET r == RngNext(rng)
             j == 1 + RandomInterval(r, i - 1)
         IN  ShuffleFrom(Swap(s, i, j), r, i - 1)

\* rand_generator.shuffle(s): the shuffled sequence and the stream after it
Shuffle(s, rng) == ShuffleFrom(s, rng, Len(s))

----------------------------------------------------------------------------
(* __generate_chunks *)

NoLabel == -1        \* the None that test_generator passes as audio_label_ind

\* np.arange(start, stop, step) for step > 0
Arange(start, stop, step) ==
    LET n == IF stop > start THEN (stop - start + step - 1) \div step ELSE 0
    IN  [k \in 1..n |-> start + (k - 1) * step]

\* the call raises: np.arange with step = input_frames_number // 2 = 0
GenerateChunksRaises(begin, end, L) == end - begin > L /\ L \div 2 = 0

\* mutant: begin indices that run up to and including end - L
BeginIndicesInclusive(begin, end, L) == Arange(begin, end - L + 1, L \div 2)

\* the begin indices of the chunks of a recording longer than L
BeginIndices(begin, end, L) == Arange(begin, end - L, L \div 2)

GenerateChunks(begin, end, audio_label_ind, L) ==
    IF end - begin <= L
    THEN << <<begin, end, audio_label_ind>> >>
    ELSE LET begin_indices == BeginIndices(begin, end, L)
         IN  [k \in DOMAIN begin_indices |->
                 <<begin_indices[k], begin_indices[k] + L, audio_label_ind>>]

----------------------------------------------------------------------------
(* __generate_xy_batches *)

\* np.tile(s, (reps, 1)): s repeated reps times along the frame axis
RECURSIVE Tile(_, _)
Tile(s, reps) == IF reps <= 0 THEN <<>> ELSE s \o Tile(s, reps - 1)

\* mutant: the repetitions without the extra one
TileRepsFloor(L, n) == L \div n

\* the repetitions asked of np.tile for a slice of n > 0 frames
TileReps(L, n) == L \div n + 1

\* the chunk put in x_batch for one (begin, end, y), given a non-raising call
Chunk(x_data, begin, end, L) ==
    LET xs == Slice(x_data, begin, end)
    IN  IF end - begin = L THEN xs
        ELSE Slice(Tile(xs, TileReps(L, Len(xs))), 0, L)

\* input_frames_number // len(x) with len(x) = 0: ZeroDivisionError
ChunkRaises(x_data, begin, end, L) ==
    end - begin # L /\ Len(Slice(x_data, begin, end)) = 0

XYBatchesRaises(x_data, indices, L) ==
    \E k \in DOMAIN indices :
        ChunkRaises(x_data, indices[k][1], indices[k][2], L)

\* the first descriptor the loop raises on
FirstRaising(x_data, indices, L) ==
    LET k == CHOOSE i \in DOMAIN indices :
                 /\ ChunkRaises(x_data, indices[i][1], indices[i][2], L)
                 /\ \A j \in 1..(i - 1) :
                        ~ChunkRaises(x_data, indices[j][1], indices[j][2], L)
    IN  <<indices[k][1], indices[k][2]>>

GenerateXYBatches(x_data, indices, L) ==
    [x_batch |-> [k \in DOMAIN indices |->
                     Chunk(x_data, indices[k][1], indices[k][2], L)],
     y_batch |-> [k \in DOMAIN indices |-> indices[k][3]]]

----------------------------------------------------------------------------
(* Normalization statistics.  mean is kept as the exact fraction sum / n   *)
(* and std as the variance fraction it is the square root of; a scaled     *)
(* frame is kept as the fraction (v * n - sum) / n over that std.          *)

Mean(frames) == [sum |-> SumSeq(frames), n |-> Len(frames)]

Std(frames) ==
    LET n == Len(frames)
        sq == SumSeq([i \in DOMAIN frames |-> frames[i] * frames[i]])
    IN  [var_num |-> n * sq - SumSeq(frames) * SumSeq(frames), var_den |-> n * n]

\* (x_batch - mean) / std
Scale(x_batch, m, s) ==
    [k \in DOMAIN x_batch |->
        [f \in DOMAIN x_batch[k] |->
            [num |-> x_batch[k][f] * m.n - m.sum, den |-> m.n, std |-> s]]]

----------------------------------------------------------------------------
(* The files the engine reads.  train.h5 holds one recording per id of     *)
(* RecIds, laid out one after the other in the feature table; a frame is   *)
(* identified by the value it holds.                                       *)

\* begin_end_ind of recordings of the given lengths (a function on 0..n-1)
RECURSIVE OffsetBefore(_, _)
OffsetBefore(lens, i) == IF i = 0 THEN 0 ELSE OffsetBefore(lens, i - 1) + lens[i - 1]

BeginEnd(lens) ==
    [i \in DOMAIN lens |-> <<OffsetBefore(lens, i), OffsetBefore(lens, i) + lens[i]>>]

TotalFrames(lens) == OffsetBefore(lens, Cardinality(DOMAIN lens))

\* hdf5['feature'] of train.h5 and of test.h5: frame values by position
TrainFeature(lens) == [i \in 1..TotalFrames(lens) |-> i - 1]
TestFeature(lens) == [i \in 1..TotalFrames(lens) |-> 2 * i + 3]

\* the ids of a numpy index array, in increasing order (0-based ids)
RECURSIVE Ascending(_)
Ascending(S) ==
    IF S = {} THEN <<>>
    ELSE LET m == CHOOSE a \in S : \A b \in S : a <= b
         IN  <<m>> \o Ascending(S \ {m})

\* self.x[begin:end] of each listed recording, joined along the frame axis
FramesOf(x_data, be, ids) ==
    Concat([k \in DOMAIN ids |-> Slice(x_data, be[ids[k]][1], be[ids[k]][2])])

----------------------------------------------------------------------------
(* __init__ *)

\* folds.index[folds != holdout_fold], or np.arange(files_number)
TrainAudioIndices(p, folds) ==
    IF p.validate
    THEN Ascending({i \in RecIds : folds[i] # p.holdout_fold})
    ELSE Ascending(RecIds)

\* folds.index[folds == holdout_fold], or np.empty(0)
ValidationAudioIndices(p, folds) ==
    IF p.validate
    THEN Ascending({i \in RecIds : folds[i] = p.holdout_fold})
    ELSE <<>>

\* the chunk pool: the chunks of every training recording, in index order
TrainChunks(be, labels, ids, L) ==
    Concat([k \in DOMAIN ids |->
               GenerateChunks(be[ids[k]][1], be[ids[k]][2], labels[ids[k]], L)])

\* the exception __init__ ends in, or "ready"
InitStatus(p, lens, folds) ==
    LET tr == TrainAudioIndices(p, folds)
        va == ValidationAudioIndices(p, folds)
        be == BeginEnd(lens)
    IN  IF p.validate /\ va = <<>> THEN "ZeroDivisionError"      \* line 76
        ELSE IF tr = <<>> THEN "ValueError"                       \* line 83
        ELSE IF \E k \in DOMAIN tr :
                   GenerateChunksRaises(be[tr[k]][1], be[tr[k]][2],
                                        p.input_frames_number)
             THEN "ZeroDivisionError"                             \* line 118
        ELSE "ready"

NewTrainGen ==
    [pc |-> "created", train_chunks_copy |-> <<>>, batch_begin_ind |-> 0,
     batches |-> <<>>, cycle |-> <<>>, last_cycle |-> <<>>, last_copy |-> <<>>,
     exc |-> "", err |-> <<>>]

\* no validation_generator() or test_generator() object made yet
NoValidationGen ==
    [pc |-> "none", runs |-> 0, mode |-> "train", manually_verified_only |-> FALSE,
     shuffle |-> FALSE, audio_indices |-> <<>>, ind |-> 0, yielded |-> <<>>,
     exc |-> "", err |-> <<>>]

NoTestGen == [pc |-> "none", aind |-> 0, yielded |-> <<>>, exc |-> "", err |-> <<>>]

NoCall == [op |-> "none"]

\* the engine DataGenerator(p, validate) builds from train.h5 and the fold file
Construct(p, lens, labels, verified, folds, test_lens) ==
    LET st == InitStatus(p, lens, folds)
        ok == st = "ready"
        tr == TrainAudioIndices(p, folds)
        be == BeginEnd(lens)
        x_train == FramesOf(TrainFeature(lens), be, tr)
    IN  /\ params = p
        /\ x = TrainFeature(lens)
        /\ y = labels
        /\ manually_verified = verified
        /\ begin_end_indices = be
        /\ status = st
        /\ train_audio_indices = IF ok THEN tr ELSE <<>>
        /\ validation_audio_indices = IF ok THEN ValidationAudioIndices(p, folds) ELSE <<>>
        /\ mean = IF ok THEN Mean(x_train) ELSE Mean(<<>>)
        /\ std = IF ok THEN Std(x_train) ELSE Std(<<>>)
        /\ train_chunks = IF ok THEN TrainChunks(be, labels, tr, p.input_frames_number)
                          ELSE <<>>
        /\ train_rand_generator = RandomState(p.seed)
        /\ validation_rand_generator = RandomState(0)
        /\ epoch = 0
        /\ epoch_len = 0
        /\ test_data = [file |-> test_lens, loaded |-> FALSE]
        /\ tgen = [g \in TrainGens |-> NewTrainGen]
        /\ vgen = NoValidationGen
        /\ sgen = NoTestGen
        /\ call = NoCall

\* the label column of train.h5: label indices alternate along the file
FileLabels == [i \in RecIds |-> i % 2]

Params(L, bs, ev, seed, validate) ==
    [input_frames_number |-> L, batch_size |-> bs, eval_audios_number |-> ev,
     seed |-> seed, holdout_fold |-> 1, validate |-> validate]

----------------------------------------------------------------------------
(* train_generator.  One pull runs from the generator's current position   *)
(* to its next yield: the first pull also runs the lines before the loop.  *)

\* batch_begin_ind >= self.train_chunks_len
EpochOver(batch_begin_ind, train_chunks_len) == batch_begin_ind >= train_chunks_len

\* mutant: a slice that stops one descriptor early
BatchIndicesShort(train_chunks_copy, batch_begin_ind, batch_size) ==
    Slice(train_chunks_copy, batch_begin_ind, batch_begin_ind + batch_size - 1)

\* train_chunks_copy[batch_begin_ind:batch_begin_ind+self.batch_size]
BatchIndices(train_chunks_copy, batch_begin_ind, batch_size) ==
    Slice(train_chunks_copy, batch_begin_ind, batch_begin_ind + batch_size)

\* self.train_chunks_len // self.batch_size + 1
EpochLen(train_chunks_len, batch_size) == train_chunks_len \div batch_size + 1

\* One pull of generator object gen with the engine's training stream at rng
\* and self.epoch, self.epoch_len at ep, eplen: the generator, the stream
\* and the two counters after it.
TrainPull(gen, rng, ep, eplen) ==
    LET L == params.input_frames_number
        bs == params.batch_size
        first == Shuffle(train_chunks, rng)
        s0 == IF gen.pc = "created"
              THEN [copy |-> first.seq, rng |-> first.rng, epoch |-> 1,
                    epoch_len |-> EpochLen(Len(train_chunks), bs),
                    ind |-> 0, cycle |-> <<>>]
              ELSE [copy |-> gen.train_chunks_copy, rng |-> rng, epoch |-> ep,
                    epoch_len |-> eplen,
                    ind |-> gen.batch_begin_ind, cycle |-> gen.cycle]
        over == EpochOver(s0.ind, Len(train_chunks))
        again == Shuffle(s0.copy, s0.rng)
        s1 == IF over
              THEN [s0 EXCEPT !.copy = again.seq, !.rng = again.rng,
                              !.epoch = s0.epoch + 1, !.ind = 0, !.cycle = <<>>]
              ELSE s0
        batch_indices == BatchIndices(s1.copy, s1.ind, bs)
        raises == XYBatchesRaises(x, batch_indices, L)
        xy == GenerateXYBatches(x, batch_indices, L)
        g1 == [gen EXCEPT
                 !.train_chunks_copy = s1.copy,
                 !.batch_begin_ind = s1.ind,
                 !.cycle = s1.cycle,
                 !.last_cycle = IF over THEN s0.cycle ELSE gen.last_cycle,
                 !.last_copy = IF over THEN s0.copy ELSE gen.last_copy]
        g2 == IF raises
              THEN [g1 EXCEPT !.pc = "raised", !.exc = "ZeroDivisionError",
                              !.err = FirstRaising(x, batch_indices, L)]
              ELSE [g1 EXCEPT
                      !.pc = "suspended",
                      !.batch_begin_ind = s1.ind + bs,
                      !.cycle = s1.cycle \o batch_indices,
                      !.batches = Append(gen.batches,
                                    [indices |-> batch_indices,
                                     x_batch |-> Scale(xy.x_batch, mean, std),
                                     y_batch |-> xy.y_batch,
                                     epoch |-> s1.epoch])]
    IN  [gen |-> g2, rng |-> s1.rng, epoch |-> s1.epoch, epoch_len |-> s1.epoch_len]

\* next(g) on training generator object g
TrainNext(g) ==
    /\ status = "ready"
    /\ tgen[g].pc # "raised"
    /\ Len(tgen[g].batches) < MaxTrainSteps
    /\ LET r == TrainPull(tgen[g], train_rand_generator, epoch, epoch_len)
       IN  /\ tgen' = [tgen EXCEPT ![g] = r.gen]
           /\ train_rand_generator' = r.rng
           /\ epoch' = r.epoch
           /\ epoch_len' = r.epoch_len
    /\ UNCHANGED <<params, x, y, manually_verified, begin_end_indices, status,
                   train_audio_indices, validation_audio_indices, mean, std,
                   train_chunks, validation_rand_generator, test_data, vgen, sgen,
                   call>>

\* the engines of the training runs: every recording is a training recording
TrainFiles == [RecIds -> 0..MaxTrainLen]

InitTrain ==
    \E L \in 1..MaxL, bs \in 1..MaxBatch, seed \in 0..MaxSeed, lens \in TrainFiles :
        Construct(Params(L, bs, 0, seed, FALSE), lens, FileLabels,
                  [i \in RecIds |-> TRUE], [i \in RecIds |-> 0], <<>>)

NextTrain == \E g \in TrainGens : TrainNext(g)

SpecTrain == InitTrain /\ [][NextTrain]_vars

----------------------------------------------------------------------------
(* validation_generator *)

\* the array the mode selects: the engine's own array object, not a copy
ModeIndices(mode) ==
    IF mode = "train" THEN train_audio_indices ELSE validation_audio_indices

\* np.empty(0), the validation indices of an engine built with validate=False,
\* is a float array: indexing manually_verified with it raises IndexError
FloatIndices(mode) == mode # "train" /\ ~params.validate

\* audio_indices[np.where(self.manually_verified[audio_indices] == 1)[0]]
VerifiedOnly(audio_indices) == Filter(audio_indices, manually_verified)

\* validation_generator(mode, manually_verified_only, shuffle): a new generator object
ValidationCall(mode, manually_verified_only, shuffle) ==
    /\ status = "ready"
    /\ vgen.runs < MaxRuns
    /\ vgen' = [NoValidationGen EXCEPT
                  !.pc = "created", !.runs = vgen.runs + 1, !.mode = mode,
                  !.manually_verified_only = manually_verified_only,
                  !.shuffle = shuffle]
    /\ UNCHANGED <<params, x, y, manually_verified, begin_end_indices, status,
                   train_audio_indices, validation_audio_indices, mean, std,
                   train_chunks, train_rand_generator, validation_rand_generator,
                   epoch, epoch_len, test_data, tgen, sgen, call>>

\* the loop of validation_generator from position ind of audio_indices to the
\* next yield, the end of the loop or an exception
ValidationLoop(gen, audio_indices, ind) ==
    LET L == params.input_frames_number
        g0 == [gen EXCEPT !.audio_indices = audio_indices, !.ind = ind]
    IN  IF ind >= Len(audio_indices) \/ ind = params.eval_audios_number
        THEN [g0 EXCEPT !.pc = "done"]
        ELSE LET aind == audio_indices[ind + 1]
                 begin == begin_end_indices[aind][1]
                 end == begin_end_indices[aind][2]
                 chunk_indices == GenerateChunks(begin, end, y[aind], L)
                 xy == GenerateXYBatches(x, chunk_indices, L)
             IN  IF GenerateChunksRaises(begin, end, L)
                     \/ XYBatchesRaises(x, chunk_indices, L)
                 THEN [g0 EXCEPT !.pc = "raised", !.exc = "ZeroDivisionError",
                                 !.err = <<begin, end>>]
                 ELSE [g0 EXCEPT
                         !.pc = "suspended",
                         !.ind = ind + 1,
                         !.yielded = Append(gen.yielded,
                                       [aind |-> aind,
                                        x_batch |-> Scale(xy.x_batch, mean, std),
                                        y_batch |-> xy.y_batch,
                                        y |-> y[aind]])]

\* the first next() on the generator object: lines 186-193, then the loop
ValidationStart ==
    /\ status = "ready"
    /\ vgen.pc = "created"
    /\ LET selected == ModeIndices(vgen.mode)
           filtered == IF vgen.manually_verified_only
                       THEN VerifiedOnly(selected) ELSE selected
           sh == IF vgen.shuffle
                 THEN Shuffle(filtered, validation_rand_generator)
                 ELSE [seq |-> filtered, rng |-> validation_rand_generator]
           \* shuffle works in place: without the filter's copy, audio_indices
           \* is the engine's array
           inplace == vgen.shuffle /\ ~vgen.manually_verified_only
       IN  IF vgen.manually_verified_only /\ FloatIndices(vgen.mode)
           THEN /\ vgen' = [vgen EXCEPT !.pc = "raised", !.exc = "IndexError"]
                /\ UNCHANGED <<train_audio_indices, validation_audio_indices,
                               validation_rand_generator>>
           ELSE /\ vgen' = ValidationLoop(vgen, sh.seq, 0)
                /\ validation_rand_generator' = sh.rng
                /\ train_audio_indices' =
                      IF inplace /\ vgen.mode = "train"
                      THEN sh.seq ELSE train_audio_indices
                /\ validation_audio_indices' =
                      IF inplace /\ vgen.mode # "train"
                      THEN sh.seq ELSE validation_audio_indices
    /\ UNCHANGED <<params, x, y, manually_verified, begin_end_indices, status,
                   mean, std, train_chunks, train_rand_generator,
                   epoch, epoch_len, test_data, tgen, sgen, call>>

\* a later next() on the generator object
ValidationNext ==
    /\ status = "ready"
    /\ vgen.pc = "suspended"
    /\ vgen' = ValidationLoop(vgen, vgen.audio_indices, vgen.ind)
    /\ UNCHANGED <<params, x, y, manually_verified, begin_end_indices, status,
                   train_audio_indices, validation_audio_indices, mean, std,
                   train_chunks, train_rand_generator, validation_rand_generator,
                   epoch, epoch_len, test_data, tgen, sgen, call>>

Modes == {"train", "validation"}

NextEval ==
    \/ \E mode \in Modes, vo \in BOOLEAN, sh \in BOOLEAN : ValidationCall(mode, vo, sh)
    \/ ValidationStart
    \/ ValidationNext

\* the engines of the evaluation runs: with and without a validation split
InitEval ==
    \E L \in 1..MaxL, ev \in 0..MaxEval, validate \in BOOLEAN,
       lens \in [RecIds -> 0..MaxLen], verified \in [RecIds -> BOOLEAN],
       folds \in [RecIds -> {0, 1}] :
        /\ validate \/ folds = [i \in RecIds |-> 0]
        /\ Construct(Params(L, 1, ev, 0, validate), lens, FileLabels,
                     verified, folds, <<>>)

SpecEval == InitEval /\ [][NextEval]_vars

----------------------------------------------------------------------------
(* read_test_data and test_generator *)

\* self.x_test and self.begin_end_indices_test once test.h5 is read
XTest == TestFeature(test_data.file)
BeginEndTest == BeginEnd(test_data.file)

ReadTestData ==
    /\ status = "ready"
    /\ ~test_data.loaded
    /\ test_data' = [test_data EXCEPT !.loaded = TRUE]
    /\ UNCHANGED <<params, x, y, manually_verified, begin_end_indices, status,
                   train_audio_indices, validation_audio_indices, mean, std,
                   train_chunks, train_rand_generator, validation_rand_generator,
                   epoch, epoch_len, tgen, vgen, sgen, call>>

\* test_generator(): a new generator object
TestCall ==
    /\ status = "ready"
    /\ sgen.pc \in {"none", "done", "raised"}
    /\ sgen' = [NoTestGen EXCEPT !.pc = "created"]
    /\ UNCHANGED <<params, x, y, manually_verified, begin_end_indices, status,
                   train_audio_indices, validation_audio_indices, mean, std,
                   train_chunks, train_rand_generator, validation_rand_generator,
                   epoch, epoch_len, test_data, tgen, vgen, call>>

\* mutant: the test batch scaled with statistics of the test table
TestScaleOwnStats(x_batch) == Scale(x_batch, Mean(XTest), Std(XTest))

\* x_batch = (x_batch - self.mean) / self.std, line 249
TestScale(x_batch) == Scale(x_batch, mean, std)

\* next() on the test generator object
TestPull(gen) ==
    LET L == params.input_frames_number
        aind == gen.aind
    IN  IF ~test_data.loaded
        THEN [gen EXCEPT !.pc = "raised", !.exc = "AttributeError"]
        ELSE IF aind >= Cardinality(DOMAIN test_data.file)
        THEN [gen EXCEPT !.pc = "done"]
        ELSE LET begin == BeginEndTest[aind][1]
                 end == BeginEndTest[aind][2]
                 chunk_indices == GenerateChunks(begin, end, NoLabel, L)
                 xy == GenerateXYBatches(XTest, chunk_indices, L)
             IN  IF GenerateChunksRaises(begin, end, L)
                     \/ XYBatchesRaises(XTest, chunk_indices, L)
                 THEN [gen EXCEPT !.pc = "raised", !.exc = "ZeroDivisionError",
                                  !.err = <<begin, end>>]
                 ELSE [gen EXCEPT
                         !.pc = "suspended",
                         !.aind = aind + 1,
                         !.yielded = Append(gen.yielded,
                                       [aind |-> aind,
                                        raw |-> xy.x_batch,
                                        x_batch |-> TestScale(xy.x_batch)])]

TestNext ==
    /\ status = "ready"
    /\ sgen.pc \in {"created", "suspended"}
    /\ sgen' = TestPull(sgen)
    /\ UNCHANGED <<params, x, y, manually_verified, begin_end_indices, status,
                   train_audio_indices, validation_audio_indices, mean, std,
                   train_chunks, train_rand_generator, validation_rand_generator,
                   epoch, epoch_len, test_data, tgen, vgen, call>>

----------------------------------------------------------------------------
(* The engine with every operation: one training generator, validation     *)
(* runs, read_test_data and test runs, pulled in any order.                *)

TestIds == {0}

InitEngine ==
    \E L \in 1..MaxL, validate \in BOOLEAN,
       lens \in [RecIds -> 0..MaxLen], test_lens \in [TestIds -> 0..MaxLen] :
        Construct(Params(L, 1, MaxEval, 0, validate), lens, FileLabels,
                  [i \in RecIds |-> i = 0], [i \in RecIds |-> i % 2], test_lens)

Next ==
    \/ TrainNext(1)
    \/ \E mode \in Modes, vo \in BOOLEAN, sh \in BOOLEAN :
          vgen.runs < MaxEngineRuns /\ ValidationCall(mode, vo, sh)
    \/ ValidationStart
    \/ ValidationNext
    \/ ReadTestData
    \/ TestCall
    \/ TestNext

Spec == InitEngine /\ [][Next]_vars

----------------------------------------------------------------------------
(* The two private helpers called directly, on an engine whose table has   *)
(* MaxFrames frames: every range of the table and every chunk length up to *)
(* half of it.                                                             *)

Ranges == {be \in (0..MaxFrames) \X (0..MaxFrames) : be[1] <= be[2]}

GenerateChunksCall(begin, end, audio_label_ind) ==
    /\ call = NoCall
    /\ call' = LET L == params.input_frames_number
                   raised == GenerateChunksRaises(begin, end, L)
               IN  [op |-> "generate_chunks", begin |-> begin, end |-> end,
                    label |-> audio_label_ind, raised |-> raised,
                    chunks |-> IF raised THEN <<>>
                               ELSE GenerateChunks(begin, end, audio_label_ind, L)]
    /\ UNCHANGED <<params, x, y, manually_verified, begin_end_indices, status,
                   train_audio_indices, validation_audio_indices, mean, std,
                   train_chunks, train_rand_generator, validation_rand_generator,
                   epoch, epoch_len, test_data, tgen, vgen, sgen>>

GenerateXYBatchesCall(indices) ==
    /\ call = NoCall
    /\ call' = LET L == params.input_frames_number
                   raised == XYBatchesRaises(x, indices, L)
                   xy == GenerateXYBatches(x, indices, L)
               IN  [op |-> "generate_xy_batches", indices |-> indices,
                    raised |-> raised,
                    x_batch |-> IF raised THEN <<>> ELSE xy.x_batch,
                    y_batch |-> IF raised THEN <<>> ELSE xy.y_batch]
    /\ UNCHANGED <<params, x, y, manually_verified, begin_end_indices, status,
                   train_audio_indices, validation_audio_indices, mean, std,
                   train_chunks, train_rand_generator, validation_rand_generator,
                   epoch, epoch_len, test_data, tgen, vgen, sgen>>

InitChunks ==
    \E L \in 1..(MaxFrames \div 2) :
        /\ params = Params(L, 1, 0, 0, FALSE)
        /\ x = [i \in 1..MaxFrames |-> i - 1]
        /\ y = <<>>
        /\ manually_verified = <<>>
        /\ begin_end_indices = <<>>
        /\ status = "ready"
        /\ train_audio_indices = <<>>
        /\ validation_audio_indices = <<>>
        /\ mean = Mean(x)
        /\ std = Std(x)
        /\ train_chunks = <<>>
        /\ train_rand_generator = RandomState(0)
        /\ validation_rand_generator = RandomState(0)
        /\ epoch = 0
        /\ epoch_len = 0
        /\ test_data = [file |-> <<>>, loaded |-> FALSE]
        /\ tgen = [g \in TrainGens |-> NewTrainGen]
        /\ vgen = NoValidationGen
        /\ sgen = NoTestGen
        /\ call = NoCall

NextChunks ==
    \/ \E be \in Ranges, label \in {NoLabel, 0, 1} :
          GenerateChunksCall(be[1], be[2], label)
    \/ \E be1 \in Ranges : GenerateXYBatchesCall(<< <<be1[1], be1[2], 0>> >>)
    \/ \E be1 \in Ranges, be2 \in Ranges :
          GenerateXYBatchesCall(<< <<be1[1], be1[2], 0>>, <<be2[1], be2[2], 1>> >>)

SpecChunks == InitChunks /\ [][NextChunks]_vars

----------------------------------------------------------------------------
(* Chunk segmenter and batch materializer, called directly (SpecChunks)    *)

\* the starts begin + k * (L // 2), k >= 0, that are at most bound
StartsUpTo(begin, L, bound) ==
    {s \in begin..bound : (s - begin) % (L \div 2) = 0}

\* C1: for L >= 2 and end - begin > L, __generate_chunks returns exactly one
\* descriptor (s, s + L, label) for every start s = begin + k * (L // 2) with
\* s <= end - L, the bound end - L included.
C1_StartsReachEndMinusL ==
    (/\ call.op = "generate_chunks"
     /\ params.input_frames_number >= 2
     /\ call.end - call.begin > params.input_frames_number)
    => LET L == params.input_frames_number
           starts == StartsUpTo(call.begin, L, call.end - L)
       IN  /\ ~call.raised
           /\ Len(call.chunks) = Cardinality(starts)
           /\ Range(call.chunks) = {<<s, s + L, call.label>> : s \in starts}

\* C1 (amended): for L >= 2 and end - begin > L, __generate_chunks returns,
\* in increasing order, exactly one descriptor (s, s + L, label) for every
\* start s = begin + k * (L // 2) with s < end - L, the bound end - L
\* excluded.
C1_StartsBelowEndMinusL ==
    (/\ call.op = "generate_chunks"
     /\ params.input_frames_number >= 2
     /\ call.end - call.begin > params.input_frames_number)
    => LET L == params.input_frames_number
           starts == StartsUpTo(call.begin, L, call.end - L - 1)
       IN  /\ ~call.raised
           /\ Len(call.chunks) = Cardinality(starts)
           /\ Range(call.chunks) = {<<s, s + L, call.label>> : s \in starts}
           /\ \A k \in DOMAIN call.chunks :
                 call.chunks[k][1] = call.begin + (k - 1) * (L \div 2)

\* C1 witness: L = 4 on the range [0, 10), where end - L = 6 is on the
\* stride: the three descriptors (0,4), (2,6), (4,8)
C1_Witness ==
    /\ call.op = "generate_chunks"
    /\ params.input_frames_number = 4
    /\ call.begin = 0 /\ call.end = 10
    /\ Len(call.chunks) = 3
    /\ call.chunks[3][1] = 4

\* every descriptor of the call has a slice of at least one frame
AllSlicesNonEmpty(indices) ==
    \A k \in DOMAIN indices : Len(Slice(x, indices[k][1], indices[k][2])) >= 1

\* C2: when every descriptor's slice has at least one frame (the ranges lie
\* inside the table), __generate_xy_batches does not raise, every chunk of
\* x_batch has exactly L frames (the slice itself when it has L frames, else
\* the slice repeated and cut to L), and y_batch holds the descriptors'
\* labels in their order.
C2_ChunksHaveLFrames ==
    (call.op = "generate_xy_batches" /\ AllSlicesNonEmpty(call.indices))
    => LET L == params.input_frames_number
       IN  /\ ~call.raised
           /\ Len(call.x_batch) = Len(call.indices)
           /\ Len(call.y_batch) = Len(call.indices)
           /\ \A k \in DOMAIN call.indices :
                 LET xs == Slice(x, call.indices[k][1], call.indices[k][2])
                 IN  /\ Len(call.x_batch[k]) = L
                     /\ \A f \in 1..L :
                           call.x_batch[k][f] = xs[((f - 1) % Len(xs)) + 1]
                     /\ call.y_batch[k] = call.indices[k][3]

\* C2 witness: a two-descriptor call, one slice shorter than L and not a
\* divisor of it, one longer than L
C2_Witness ==
    /\ call.op = "generate_xy_batches"
    /\ Len(call.indices) = 2
    /\ ~call.raised
    /\ LET L == params.input_frames_number
           n1 == call.indices[1][2] - call.indices[1][1]
           n2 == call.indices[2][2] - call.indices[2][1]
       IN  n1 >= 2 /\ n1 < L /\ L % n1 # 0 /\ n2 > L

----------------------------------------------------------------------------
(* Training generator (SpecTrain)                                          *)

Count(s, e) == Cardinality({i \in DOMAIN s : s[i] = e})

\* a and b hold the same elements the same number of times
IsPermutation(a, b) ==
    /\ Len(a) = Len(b)
    /\ \A e \in Range(a) \cup Range(b) : Count(a, e) = Count(b, e)

\* the batches of generator g since its last (re)shuffle, concatenated in
\* yield order, are the first so many descriptors of its shuffled copy
CycleIsPrefix(g) ==
    tgen[g].cycle = Slice(tgen[g].train_chunks_copy, 0,
                          Min(tgen[g].batch_begin_ind, Len(train_chunks)))

\* C3: between two reshuffles a training generator yields exactly its
\* current shuffled copy of the chunk pool: the copy is a permutation of the
\* pool, the batches yielded since the last (re)shuffle are a prefix of it
\* (so no batch mixes two shuffles), and at each reshuffle the batches
\* yielded since the previous one concatenate to the whole copy.
C3_EpochCoverage ==
    \A g \in TrainGens :
        tgen[g].pc # "created"
        => /\ IsPermutation(tgen[g].train_chunks_copy, train_chunks)
           /\ CycleIsPrefix(g)
           /\ \A k \in DOMAIN tgen[g].batches :
                 Len(tgen[g].batches[k].indices) >= 1
           /\ (tgen[g].last_copy # <<>>
               => /\ tgen[g].last_cycle = tgen[g].last_copy
                  /\ IsPermutation(tgen[g].last_copy, train_chunks))

\* C3 witness: a generator has finished an epoch of at least two batches
\* whose last batch was short, and has yielded from the next shuffle, while
\* the other generator was pulled too
C3_Witness ==
    \E g \in TrainGens :
        /\ tgen[g].last_copy # <<>>
        /\ Len(tgen[g].last_copy) > params.batch_size
        /\ Len(tgen[g].last_copy) % params.batch_size # 0
        /\ tgen[g].cycle # <<>>
        /\ \E h \in TrainGens \ {g} : tgen[h].pc = "suspended"

\* the first k pulls of one training generator alone on a freshly built
\* engine with the same seed and chunk pool
RECURSIVE FreshRun(_)
FreshRun(k) ==
    IF k = 0
    THEN [gen |-> NewTrainGen, rng |-> RandomState(params.seed),
          epoch |-> 0, epoch_len |-> 0]
    ELSE LET p == FreshRun(k - 1)
         IN  TrainPull(p.gen, p.rng, p.epoch, p.epoch_len)

\* C4: every training generator of an engine yields, whatever the
\* interleaving with the other one, the batches (descriptors and epoch
\* number) that one generator alone on a fresh engine with that seed yields
\* (stated for the runs in which no pull raised).
C4_SameAsFreshEngine ==
    (\A h \in TrainGens : tgen[h].pc # "raised")
    => \A g \in TrainGens :
          tgen[g].batches = FreshRun(Len(tgen[g].batches)).gen.batches

\* C10: with one training generator pulled, the k-th yielded batch is
\* yielded in epoch 1 + (k - 1) div epoch_len, where
\* epoch_len = pool_size div batch_size + 1.
C10_EpochEveryEpochLen ==
    (tgen[1].pc # "created" /\ tgen[2].pc = "created")
    => /\ epoch_len = Len(train_chunks) \div params.batch_size + 1
       /\ \A k \in DOMAIN tgen[1].batches :
             tgen[1].batches[k].epoch = 1 + (k - 1) \div epoch_len

----------------------------------------------------------------------------
(* Validation generator (SpecEval)                                         *)

\* the recordings a run selects: the mode's ids, the verified ones only when
\* manually_verified_only is set
Selected(mode, manually_verified_only) ==
    {i \in Range(ModeIndices(mode)) : ~manually_verified_only \/ manually_verified[i]}

\* C5: a run of validation_generator ends, without an exception, after
\* yielding exactly min(eval_audios_number, |S|) items, each a distinct
\* recording of the selected set S.
C5_YieldsMinEvalSelected ==
    vgen.pc \in {"done", "raised"}
    => LET S == Selected(vgen.mode, vgen.manually_verified_only)
       IN  /\ vgen.pc = "done"
           /\ Len(vgen.yielded) = Min(params.eval_audios_number, Cardinality(S))
           /\ \A k \in DOMAIN vgen.yielded : vgen.yielded[k].aind \in S
           /\ \A j, k \in DOMAIN vgen.yielded :
                 j # k => vgen.yielded[j].aind # vgen.yielded[k].aind

\* C9: no step of a validation run changes the engine's train and
\* validation index arrays (same elements in the same order).
C9_IndexArraysUnchanged ==
    [][/\ train_audio_indices' = train_audio_indices
       /\ validation_audio_indices' = validation_audio_indices]_vars

----------------------------------------------------------------------------
(* The whole engine (Spec)                                                 *)

\* a generator object that raised ZeroDivisionError on a range of fewer
\* than L frames
RaisedOnShort(gen) ==
    /\ gen.pc = "raised"
    /\ gen.exc = "ZeroDivisionError"
    /\ gen.err[2] - gen.err[1] < params.input_frames_number

\* C6: no generator raises on a recording of 0 <= end - begin < L frames,
\* the zero-frame one included.
C6_ShortRecordingsNeverRaise ==
    /\ ~RaisedOnShort(tgen[1])
    /\ ~RaisedOnShort(vgen)
    /\ ~RaisedOnShort(sgen)

\* some generator object has been pulled
Pulled ==
    \/ \E g \in TrainGens : tgen[g].pc # "created"
    \/ vgen.pc \notin {"none", "created"}
    \/ sgen.pc \notin {"none", "created"}

\* C7: with input_frames_number < 2 construction fails, so no step of a
\* training, validation or test generator is run.
C7_NoStepWithInvalidL ==
    params.input_frames_number < 2 => ~Pulled

\* the frames of the training recordings, in table order
XTrain == FramesOf(x, begin_end_indices, Ascending(Range(train_audio_indices)))

\* C8: on a built engine mean and std are, after any operations, the
\* statistics of the training recordings' frames, and every batch the test
\* generator yields is the raw test batch scaled with them.
C8_StatsFrozen ==
    status = "ready"
    => /\ mean = Mean(XTrain)
       /\ std = Std(XTrain)
       /\ \A k \in DOMAIN sgen.yielded :
             sgen.yielded[k].x_batch = Scale(sgen.yielded[k].raw, Mean(XTrain), Std(XTrain))

\* C8 witness: after training pulls and a validation run that yielded, the
\* test generator has yielded a batch of a test table whose own statistics
\* differ from the training ones; the engine has a validation split, so the
\* training frames are not the whole table
C8_Witness ==
    /\ status = "ready"
    /\ params.validate
    /\ tgen[1].batches # <<>>
    /\ vgen.yielded # <<>>
    /\ test_data.loaded
    /\ sgen.yielded # <<>>
    /\ Mean(XTest) # mean
    /\ Mean(x) # mean

====
